---- MODULE Spec2Model ----
(***************************************************************************)
(* Schema resolver of MetaDataCreator (src/MetaDataCreatorNoProxy.py):     *)
(* _translate_type, _get_type, _get_ndrm_type, _get_prop_type,             *)
(* _get_properties and the create_obj handler that is built on them.       *)
(*                                                                         *)
(* A sub-schema (a JSON object decoded to a Python dict) is a function     *)
(* from its keys to their values: "type" is a string, "$ref" a path given   *)
(* as the sequence of its "/"-separated segments, "allOf" and "anyOf" are  *)
(* sequences of sub-schemas, "properties" a function from property names   *)
(* to sub-schemas, "required" a sequence of names.  Key order of a dict is *)
(* not modelled.                                                           *)
(*                                                                         *)
(* Python values returned by the resolver are tagged records: the fields   *)
(* differ per kind so that values of different kinds compare unequal.      *)
(* An exception that leaves a function is the value KeyError or TypeError; *)
(* every caller passes it on unchanged, as an uncaught exception does.     *)
(***************************************************************************)
EXTENDS Integers, Sequences, FiniteSets, TLC

VARIABLES
    definitions,    \* self.schema["definitions"]
    loaded,         \* the definitions as set_schema stored them (history)
    object_select,  \* self.object_select.value
    editor,         \* self.layout[1][1][0]: the object's editor
    props_view,     \* self.layout[1][1][1]: the properties view
    notes_view,     \* self.layout[1][1][2]: the notes view
    call            \* the last invocation: operation, arguments, outcome

vars == <<definitions, loaded, object_select, editor, props_view, notes_view, call>>

---------------------------------------------------------------------------
(* Python values *)

EmptyString == [kind |-> "str", s |-> ""]
EmptyList == [kind |-> "list", items |-> <<>>]
EmptyMap == [k \in {} |-> k]
EmptyDict == [kind |-> "dict", map |-> EmptyMap]
NoneValue == [kind |-> "None"]
KeyError == [kind |-> "KeyError"]
TypeError == [kind |-> "TypeError"]

ListOf(items) == [kind |-> "list", items |-> items]
DictOf(map) == [kind |-> "dict", map |-> map]
\* the 3-tuple _get_properties returns
Triple(props, required, required_types) ==
    [kind |-> "tuple", props |-> props, required |-> required,
     required_types |-> required_types]

IsError(v) == v.kind \in {"KeyError", "TypeError"}

Has(schema, key) == key \in DOMAIN schema

Range(seq) == {seq[i] : i \in 1..Len(seq)}

---------------------------------------------------------------------------
(* The resolver *)

\* schema["$ref"].split("/")[-1]
RefName(path) == path[Len(path)]

\* Lookup as definitions.get(name, {}) would do it: an empty sub-schema for
\* a name that is no key
LookupOrEmpty(defs, name) == IF name \in DOMAIN defs THEN defs[name] ELSE EmptyMap

\* self.schema["definitions"][name]: the sub-schema, or KeyError
Lookup(defs, name) == IF name \in DOMAIN defs THEN defs[name] ELSE KeyError

\* _translate_type with the two tests exchanged
TranslateTypeSwapped(t) ==
    IF t = "string" THEN EmptyList
    ELSE IF t = "array" THEN EmptyString
    ELSE EmptyDict

_translate_type(t) ==
    IF t = "array" THEN EmptyList
    ELSE IF t = "string" THEN EmptyString
    ELSE EmptyDict

\* SkipsAlternative without the test for "null"
SkipsUntyped(dic) == ~Has(dic, "type")

\* the test of lines 245-247 that makes the anyOf loop pass over an alternative
SkipsAlternative(dic) == ~Has(dic, "type") \/ dic["type"] = "null"

\* the loop of lines 244-249 from alternative i on; v when it runs out
RECURSIVE FirstTyped(_, _, _)
FirstTyped(alternatives, i, v) ==
    IF i > Len(alternatives) THEN v
    ELSE IF SkipsAlternative(alternatives[i])
         THEN FirstTyped(alternatives, i + 1, v)
         ELSE _translate_type(alternatives[i]["type"])

RECURSIVE _get_type(_, _)
_get_type(defs, schema) ==
    IF Has(schema, "properties") THEN EmptyDict
    ELSE IF Has(schema, "type") THEN _translate_type(schema["type"])
    ELSE IF Has(schema, "anyOf") THEN FirstTyped(schema["anyOf"], 1, EmptyDict)
    ELSE IF Has(schema, "$ref")
         THEN LET target == Lookup(defs, RefName(schema["$ref"]))
              IN  IF target = KeyError THEN KeyError
                  ELSE _get_type(defs, target)
    ELSE EmptyDict

\* f"ndrm:{name}"
QualifiedName(name) == "ndrm:" \o name

\* AppendAll that leaves out the names v holds already
AppendNew(v, chain) == v \o SelectSeq(chain, LAMBDA n : n \notin Range(v))

\* for n in chain: v.append(n)
AppendAll(v, chain) == v \o chain

RECURSIVE _get_ndrm_type(_, _, _)
RECURSIVE ChainAllOf(_, _, _, _)
\* the loop of lines 273-278 from entry i on, v being the list built so far
ChainAllOf(defs, entries, i, v) ==
    IF i > Len(entries) THEN ListOf(v)
    ELSE IF Has(entries[i], "$ref")
         THEN LET new_name == RefName(entries[i]["$ref"])
                  target == Lookup(defs, new_name)
                  chain == IF target = KeyError THEN KeyError
                           ELSE _get_ndrm_type(defs, new_name, target)
              IN  IF IsError(chain) THEN chain
                  ELSE ChainAllOf(defs, entries, i + 1, AppendAll(v, chain.items))
         ELSE ChainAllOf(defs, entries, i + 1, v)

_get_ndrm_type(defs, name, schema) ==
    LET v == <<QualifiedName(name)>>
    IN  IF Has(schema, "allOf") THEN ChainAllOf(defs, schema["allOf"], 1, v)
        ELSE IF Has(schema, "$ref")
             THEN LET new_name == RefName(schema["$ref"])
                      target == Lookup(defs, new_name)
                      chain == IF target = KeyError THEN KeyError
                               ELSE _get_ndrm_type(defs, new_name, target)
                  IN  IF IsError(chain) THEN chain
                      ELSE ListOf(AppendAll(v, chain.items))
        ELSE ListOf(v)

\* prop[key] as line 330 reads it: the value, or KeyError
Subscript(prop, key) == IF Has(prop, key) THEN prop[key] ELSE KeyError

\* the loop of lines 328-331 from alternative i on
RECURSIVE FirstReferenced(_, _, _, _)
FirstReferenced(defs, prop, alternatives, i) ==
    IF i > Len(alternatives) THEN NoneValue
    ELSE IF Has(alternatives[i], "$ref")
         THEN LET path == Subscript(prop, "$ref")
                  target == IF path = KeyError THEN KeyError
                            ELSE Lookup(defs, RefName(path))
              IN  IF target = KeyError THEN KeyError
                  ELSE _get_type(defs, target)
         ELSE FirstReferenced(defs, prop, alternatives, i + 1)

_get_prop_type(defs, name, schema) ==
    IF ~Has(schema, "properties") \/ ~Has(schema["properties"], name)
    THEN EmptyString
    ELSE LET prop == schema["properties"][name]
         IN  IF Has(prop, "type") THEN _translate_type(prop["type"])
             ELSE IF Has(prop, "$ref")
                  THEN LET target == Lookup(defs, RefName(prop["$ref"]))
                       IN  IF target = KeyError THEN KeyError
                           ELSE _get_type(defs, target)
             ELSE IF Has(prop, "allOf") THEN EmptyDict
             ELSE IF Has(prop, "anyOf")
                  THEN LET typed == FirstTyped(prop["anyOf"], 1, NoneValue)
                       IN  IF typed # NoneValue THEN typed
                           ELSE FirstReferenced(defs, prop, prop["anyOf"], 1)
             ELSE NoneValue

\* MergeProperties without the test "if not prop in out_props"
OverwriteProperties(out_props, props) ==
    [p \in DOMAIN out_props \cup DOMAIN props |->
        IF p \in DOMAIN props THEN props[p] ELSE out_props[p]]

\* lines 370-372 and 383-385: add the properties out_props does not hold yet
MergeProperties(out_props, props) ==
    [p \in DOMAIN out_props \cup DOMAIN props |->
        IF p \in DOMAIN out_props THEN out_props[p] ELSE props[p]]

\* "if not prop in required" of lines 375 and 387
IsNewRequired(required, prop) == prop \notin Range(required)

\* the default line 378 records for a name the entry dic lists as required
EntryRequiredType(defs, prop, dic) == _get_prop_type(defs, prop, dic)

\* the loop of lines 353-355 from index i on
RECURSIVE RequiredTypes(_, _, _, _, _)
RequiredTypes(defs, schema, required, i, required_types) ==
    IF i > Len(required) THEN Triple(schema["properties"], required, required_types)
    ELSE LET t == _get_prop_type(defs, required[i], schema)
         IN  IF IsError(t) THEN t
             ELSE RequiredTypes(defs, schema, required, i + 1,
                                Append(required_types, t))

\* the loop of lines 374-378 from index i on
RECURSIVE OwnRequired(_, _, _, _)
OwnRequired(defs, dic, i, acc) ==
    IF i > Len(dic["required"]) THEN acc
    ELSE LET prop == dic["required"][i]
         IN  IF ~IsNewRequired(acc.required, prop)
             THEN OwnRequired(defs, dic, i + 1, acc)
             ELSE LET t == EntryRequiredType(defs, prop, dic)
                  IN  IF IsError(t) THEN t
                      ELSE OwnRequired(defs, dic, i + 1,
                               [acc EXCEPT !.required = Append(@, prop),
                                           !.required_types = Append(@, t)])

\* the loop of lines 386-389 from index i on
RECURSIVE InheritedRequired(_, _, _)
InheritedRequired(tmp, i, acc) ==
    IF i > Len(tmp.required) THEN acc
    ELSE IF ~IsNewRequired(acc.required, tmp.required[i])
         THEN InheritedRequired(tmp, i + 1, acc)
         ELSE InheritedRequired(tmp, i + 1,
                  [acc EXCEPT !.required = Append(@, tmp.required[i]),
                              !.required_types = Append(@, tmp.required_types[i])])

\* RequiredOf that drops the last name of the list
RequiredButLast(schema) ==
    IF Has(schema, "required") /\ schema["required"] # <<>>
    THEN SubSeq(schema["required"], 1, Len(schema["required"]) - 1) ELSE <<>>

\* lines 346 and 351-352: the node's own required list, empty without the key
RequiredOf(schema) ==
    IF Has(schema, "required") THEN schema["required"] ELSE <<>>

RECURSIVE _get_properties(_, _)
RECURSIVE MergeAllOf(_, _, _, _)
\* the loop of lines 368-389 from entry i on; acc holds out_props, required
\* and required_types
MergeAllOf(defs, entries, i, acc) ==
    IF i > Len(entries) THEN acc
    ELSE LET dic == entries[i]
             own == IF Has(dic, "properties")
                    THEN [acc EXCEPT !.props = MergeProperties(@, dic["properties"])]
                    ELSE acc
             next ==
                 IF Has(dic, "required") THEN OwnRequired(defs, dic, 1, own)
                 ELSE IF Has(dic, "$ref")
                      THEN LET target == Lookup(defs, RefName(dic["$ref"]))
                               tmp == IF target = KeyError THEN KeyError
                                      ELSE _get_properties(defs, target)
                           IN  IF IsError(tmp) THEN tmp
                               \* None cannot be unpacked into three names
                               ELSE IF tmp = NoneValue THEN TypeError
                               ELSE InheritedRequired(tmp, 1,
                                        [own EXCEPT !.props =
                                            MergeProperties(@, tmp.props)])
                 ELSE own
         IN  IF IsError(next) THEN next
             ELSE MergeAllOf(defs, entries, i + 1, next)

_get_properties(defs, schema) ==
    LET t == _get_type(defs, schema)
    IN  IF IsError(t) THEN t
        ELSE IF t.kind = "dict"
        THEN IF Has(schema, "properties")
             THEN RequiredTypes(defs, schema, RequiredOf(schema), 1, <<>>)
             ELSE IF Has(schema, "$ref")
                  THEN LET target == Lookup(defs, RefName(schema["$ref"]))
                       IN  IF target = KeyError THEN KeyError
                           ELSE _get_properties(defs, target)
             ELSE IF Has(schema, "allOf")
                  THEN MergeAllOf(defs, schema["allOf"], 1,
                                  Triple(EmptyMap, <<>>, <<>>))
             ELSE NoneValue
        ELSE Triple(EmptyMap, <<>>, <<>>)

---------------------------------------------------------------------------
(* create_obj *)

\* line 406 without .copy(): s is the definition itself
SameObject(d) == [fresh |-> FALSE, items |-> d]

\* dict.copy() of line 406: a new dict that holds the same items
ShallowCopy(d) == [fresh |-> TRUE, items |-> d]

\* the value of s["definitions"]: a reference to the definitions mapping
DefinitionsRef == [ref |-> "self.schema['definitions']"]

\* pn.Spacer(width=520)
Spacer == [widget |-> "Spacer", width |-> 520]

\* v[key] = value
SetItem(map, key, value) ==
    [k \in DOMAIN map \cup {key} |-> IF k = key THEN value ELSE map[k]]

\* the loop of lines 420-421 from index i on
RECURSIVE SetRequired(_, _, _, _)
SetRequired(map, this_req, this_types, i) ==
    IF i > Len(this_req) THEN map
    ELSE SetRequired(SetItem(map, this_req[i], this_types[i]),
                     this_req, this_types, i + 1)

\* lines 407-421: the value v of the new object, or the exception raised
\* on the way; got is what _get_properties returned
ObjectValue(defs, name, s, v, got) ==
    IF IsError(got) THEN got
    \* None cannot be unpacked into three names
    ELSE IF got = NoneValue THEN TypeError
    ELSE LET chain == IF Has(got.props, "@type")
                      THEN _get_ndrm_type(defs, name, s) ELSE NoneValue
             typed == IF Has(got.props, "@type")
                      THEN SetItem(v.map, "@type", chain) ELSE v.map
             ided == IF Has(got.props, "@id")
                     THEN SetItem(typed, "@id", EmptyString) ELSE typed
         IN  IF IsError(chain) THEN chain
             ELSE DictOf(SetRequired(ided, got.required, got.required_types, 1))

\* the outcome of an invocation that raised: nothing else changes
Raise(op, name, error) ==
    /\ call' = [op |-> op, name |-> name, outcome |-> error]
    /\ UNCHANGED <<definitions, loaded, object_select, editor, props_view,
                   notes_view>>

create_obj ==
    LET name == object_select
        found == Lookup(definitions, name)
    IN  IF found = KeyError THEN Raise("create_obj", name, KeyError)
        ELSE
        LET s == ShallowCopy(found)
            v == _get_type(definitions, s.items)
            got == IF ~IsError(v) /\ v.kind = "dict"
                   THEN _get_properties(definitions, s.items) ELSE NoneValue
            value == IF IsError(v) \/ v.kind # "dict" THEN v
                     ELSE ObjectValue(definitions, name, s.items, v, got)
            \* lines 441-442 write to s
            written == SetItem(SetItem(s.items, "definitions", DefinitionsRef),
                               "title", name)
        IN  IF IsError(value) THEN Raise("create_obj", name, value)
            ELSE
            /\ notes_view' =
                   IF v.kind # "dict" THEN notes_view
                   ELSE IF Has(definitions[name], "notes")
                   THEN [widget |-> "JSONEditor",
                         value |-> definitions[name]["notes"], mode |-> "view"]
                   ELSE Spacer
            /\ props_view' =
                   IF v.kind = "dict"
                   THEN [widget |-> "JSONEditor", value |-> got.props,
                         mode |-> "view"]
                   ELSE Spacer
            /\ editor' = [widget |-> "JSONEditor", value |-> value,
                          schema |-> written, mode |-> "tree"]
            \* the writes reach the definition itself unless s is a copy
            /\ definitions' = IF s.fresh THEN definitions
                              ELSE [definitions EXCEPT ![name] = written]
            /\ call' = [op |-> "create_obj", name |-> name, outcome |-> value]
            /\ UNCHANGED <<loaded, object_select>>

---------------------------------------------------------------------------
(* Invocations of the resolver: the outcome is kept in call *)

Returns(op, name, node, outcome) ==
    /\ call' = [op |-> op, name |-> name, node |-> node, outcome |-> outcome]
    /\ UNCHANGED <<definitions, loaded, object_select, editor, props_view,
                   notes_view>>

GetType(node) ==
    Returns("_get_type", "", node, _get_type(definitions, node))

GetNdrmType(name, node) ==
    Returns("_get_ndrm_type", name, node, _get_ndrm_type(definitions, name, node))

GetPropType(name, node) ==
    Returns("_get_prop_type", name, node, _get_prop_type(definitions, name, node))

GetProperties(node) ==
    Returns("_get_properties", "", node, _get_properties(definitions, node))

---------------------------------------------------------------------------
(* The schemas and sub-schemas the resolver is run on *)

MaxAnyOf == 2       \* most alternatives of an anyOf
MaxAllOf == 2       \* most entries of an allOf
MaxRequired == 2    \* most names of a required list

SeqsUpTo(S, n) == UNION {[1..k -> S] : k \in 0..n}

Ghost == "Ghost"    \* a name that is never a key of the definitions
DefNames == {"Foo", "Bar", "Baz"}
Types == {"string", "array", "object", "null", "integer"}

\* "#/definitions/<name>"
Path(name) == <<"#", "definitions", name>>
RefTo(name) == "$ref" :> Path(name)
TypeOf(t) == [type |-> t]
Nullable(alternative) == [anyOf |-> <<TypeOf("null"), alternative>>]

\* Baz refers to no definition, Bar only to Baz, Foo to Bar and Baz: the
\* $ref/allOf graph of the definitions is acyclic.
Person ==
    [type |-> "object",
     properties |-> [name |-> TypeOf("string"), age |-> TypeOf("string")],
     required |-> <<"name">>]

Resource ==
    [type |-> "object",
     properties |-> ("@type" :> TypeOf("array")) @@ ("@id" :> TypeOf("string"))
                    @@ ("x" :> TypeOf("array")) @@ ("y" :> TypeOf("string")),
     required |-> <<"x", "@id">>,
     notes |-> <<"a note">>]

BazDefs ==
    {Person, Resource, TypeOf("string"), TypeOf("array"), TypeOf("object")}

BarDefs ==
    { RefTo("Baz"),
      RefTo(Ghost),
      [allOf |-> <<RefTo("Baz"),
                   [properties |-> ("x" :> TypeOf("string")) @@ ("y" :> RefTo("Baz")),
                    required |-> <<"y", "x">>]>>],
      [properties |-> ("x" :> RefTo(Ghost)) @@ ("@type" :> TypeOf("string")),
       required |-> <<"@type">>],
      [properties |-> ("x" :> Nullable(TypeOf("array")))
                      @@ ("y" :> Nullable(RefTo("Baz"))),
       required |-> <<"x">>] }

FooDefs ==
    { RefTo("Bar"),
      [allOf |-> <<RefTo("Bar"), RefTo("Baz")>>],
      [allOf |-> <<[properties |-> ("x" :> TypeOf("array"))],
                   [required |-> <<"x">>]>>],
      [allOf |-> <<[properties |-> ("x" :> TypeOf("string")), required |-> <<"x">>],
                   [properties |-> ("x" :> TypeOf("array")) @@ ("y" :> TypeOf("array")),
                    required |-> <<"x", "y">>]>>],
      [allOf |-> <<RefTo("Baz"), RefTo(Ghost)>>],
      [type |-> "object",
       properties |-> ("x" :> RefTo("Bar")) @@ ("y" :> TypeOf("string")),
       required |-> <<"x", "y">>] }

SchemaOf(foo, bar, baz) == ("Foo" :> foo) @@ ("Bar" :> bar) @@ ("Baz" :> baz)

\* the schemas the application is started with
Schemas ==
    {SchemaOf(foo, bar, baz) : foo \in FooDefs, bar \in BarDefs, baz \in BazDefs}

\* the names a property is asked for by
PropNames == {"x", "y", "@type", "name"}

\* the alternatives of an anyOf
Alternatives ==
    {TypeOf(t) : t \in Types} \cup {RefTo("Baz"), RefTo(Ghost), EmptyMap}
AnyOfLists == SeqsUpTo(Alternatives, MaxAnyOf)

\* sub-schemas without properties and without entries of an allOf
LeafNodes ==
    {TypeOf(t) : t \in Types}
    \cup {RefTo(n) : n \in {"Bar", "Baz", Ghost}}
    \cup {"$ref" :> <<"Baz">>, "$ref" :> <<"", "definitions", "Bar">>}
    \cup {RefTo("Baz") @@ TypeOf(t) : t \in {"string", "object"}}
    \cup {[anyOf |-> a] : a \in AnyOfLists}
    \cup {RefTo("Baz") @@ [anyOf |-> a] : a \in AnyOfLists}
    \cup {EmptyMap, [allOf |-> <<>>], [type |-> "array", allOf |-> <<>>],
          [required |-> <<"x">>], [type |-> "string", required |-> <<"x">>]}

\* objects that declare one property x of every leaf shape
PropNodes ==
    {[properties |-> ("x" :> p), required |-> <<"x">>] : p \in LeafNodes}

\* objects that declare their properties directly
Shapes ==
    {TypeOf("string"), TypeOf("array"), RefTo("Baz"), Nullable(RefTo("Baz")),
     EmptyMap}
PropMaps == UNION {[S -> Shapes] : S \in SUBSET {"x", "y"}}
RequiredLists == SeqsUpTo({"x", "y"}, MaxRequired)
ObjNodes ==
    {[properties |-> pm] : pm \in PropMaps}
    \cup {[properties |-> pm, required |-> rq] :
             pm \in PropMaps, rq \in RequiredLists}
    \cup {[type |-> "string", properties |-> pm, required |-> <<"x">>] :
             pm \in PropMaps}

\* the entries of an allOf: inline objects, references, and both at once
EntryMaps ==
    {("x" :> TypeOf("string")), ("x" :> TypeOf("array")) @@ ("y" :> TypeOf("string"))}
EntryRequired == {<<"x">>, <<"x", "y">>}
Entries ==
    {[properties |-> pm] : pm \in EntryMaps}
    \cup {[required |-> rq] : rq \in EntryRequired}
    \cup {[properties |-> pm, required |-> rq] :
             pm \in EntryMaps, rq \in EntryRequired}
    \cup {EmptyMap}
    \cup {RefTo(n) : n \in {"Bar", "Baz", Ghost}}
    \cup {RefTo("Baz") @@ [required |-> <<"x">>],
          RefTo("Baz") @@ [properties |-> ("x" :> TypeOf("array"))]}
AllOfLists == SeqsUpTo(Entries, MaxAllOf)
AllOfNodes ==
    {[allOf |-> l] : l \in AllOfLists}
    \cup {[type |-> t, allOf |-> l] :
             t \in {"object", "string"}, l \in {m \in AllOfLists : Len(m) = 1}}

---------------------------------------------------------------------------
(* The application: a schema is loaded, objects are selected and created, *)
(* and the resolver is asked about the definitions.                        *)

NoCall == [op |-> "none", name |-> "", outcome |-> NoneValue]

Init ==
    /\ definitions \in Schemas
    /\ loaded = definitions
    \* the first of the sorted names
    /\ object_select = "Bar"
    /\ editor = Spacer
    /\ props_view = Spacer
    /\ notes_view = Spacer
    /\ call = NoCall

\* the selector is set to a name; the unknown name is the one of the spec's
\* scenario, set from outside the option list
Select(name) ==
    /\ object_select' = name
    /\ UNCHANGED <<definitions, loaded, editor, props_view, notes_view, call>>

Next ==
    \/ \E name \in DefNames \cup {Ghost} : Select(name)
    \/ create_obj
    \/ \E name \in DOMAIN definitions : GetType(definitions[name])
    \/ \E name \in DOMAIN definitions : GetNdrmType(name, definitions[name])
    \/ \E name \in DOMAIN definitions, prop \in PropNames :
          GetPropType(prop, definitions[name])
    \/ \E name \in DOMAIN definitions : GetProperties(definitions[name])

Spec == Init /\ [][Next]_vars

(* The resolver alone: the definition Foo is any sub-schema of the pools   *)
(* above, over a few definitions of Bar and Baz.                           *)

Nodes == LeafNodes \cup PropNodes \cup ObjNodes \cup Entries \cup AllOfNodes

ResolverSchemas ==
    {SchemaOf(foo, bar, baz) :
        foo \in Nodes,
        bar \in {RefTo("Baz"),
                 [allOf |-> <<RefTo("Baz"),
                              [properties |-> ("y" :> TypeOf("array")),
                               required |-> <<"y">>]>>]},
        baz \in {Resource, TypeOf("string"), TypeOf("object")}}

InitResolver ==
    /\ definitions \in ResolverSchemas
    /\ loaded = definitions
    /\ object_select = "Bar"
    /\ editor = Spacer
    /\ props_view = Spacer
    /\ notes_view = Spacer
    /\ call = NoCall

NextResolver ==
    \/ \E name \in DOMAIN definitions : GetType(definitions[name])
    \/ \E name \in DOMAIN definitions : GetNdrmType(name, definitions[name])
    \/ \E name \in DOMAIN definitions, prop \in PropNames :
          GetPropType(prop, definitions[name])
    \/ \E name \in DOMAIN definitions : GetProperties(definitions[name])

SpecResolver == InitResolver /\ [][NextResolver]_vars

---------------------------------------------------------------------------
(* Properties of the resolver and of create_obj *)

\* the fixed table of defaults: array, string, anything else
TableDefault(t) ==
    CASE t = "array" -> EmptyList
      [] t = "string" -> EmptyString
      [] OTHER -> EmptyDict

Min(S) == CHOOSE i \in S : \A j \in S : i <= j

\* the alternatives of an anyOf that carry a type other than "null"
TypedAlternatives(alternatives) ==
    {i \in 1..Len(alternatives) :
        Has(alternatives[i], "type") /\ alternatives[i]["type"] # "null"}

\* the sequences of a sequence of sequences, one after the other
RECURSIVE Flatten(_)
Flatten(seqs) ==
    IF seqs = <<>> THEN <<>> ELSE Head(seqs) \o Flatten(Tail(seqs))

\* the elements of seq, each at its first place only
RECURSIVE FirstOccurrences(_)
FirstOccurrences(seq) ==
    IF seq = <<>> THEN <<>>
    ELSE LET front == FirstOccurrences(SubSeq(seq, 1, Len(seq) - 1))
             last == seq[Len(seq)]
         IN  IF last \in Range(front) THEN front ELSE Append(front, last)

\* the names the entries that carry a $ref point to, in their order
RECURSIVE Referenced(_)
Referenced(entries) ==
    IF entries = <<>> THEN <<>>
    ELSE IF Has(Head(entries), "$ref")
         THEN <<RefName(Head(entries)["$ref"])>> \o Referenced(Tail(entries))
         ELSE Referenced(Tail(entries))

\* the names a sub-schema inherits from directly, in listed order
Parents(node) ==
    IF Has(node, "allOf") THEN Referenced(node["allOf"])
    ELSE IF Has(node, "$ref") THEN <<RefName(node["$ref"])>>
    ELSE <<>>

\* a definition's name followed by the ancestry of each of its parents
RECURSIVE Ancestry(_, _)
Ancestry(defs, name) ==
    IF name \notin DOMAIN defs THEN <<name>>
    ELSE LET parents == Parents(defs[name])
         IN  <<name>> \o Flatten([i \in 1..Len(parents) |-> Ancestry(defs, parents[i])])

\* C6: a sub-schema without properties, $ref, allOf and anyOf has the default
\* of its type: the empty sequence for "array", the empty string for
\* "string", the empty mapping for any other type and without a type.
C6_TypeTable ==
    (/\ call.op = "_get_type"
     /\ DOMAIN call.node \cap {"properties", "$ref", "allOf", "anyOf"} = {})
    => call.outcome =
         IF Has(call.node, "type") /\ call.node["type"] = "array" THEN EmptyList
         ELSE IF Has(call.node, "type") /\ call.node["type"] = "string"
              THEN EmptyString
         ELSE EmptyDict

C6_Witness ==
    /\ call.op = "_get_type"
    /\ call.node = TypeOf("array")
    /\ call.outcome = EmptyList

\* C5: a sub-schema with anyOf and neither properties nor type has the table
\* default of its first alternative that carries a type other than "null",
\* and the empty mapping when no alternative does.
C5_FirstNonNull ==
    (/\ call.op = "_get_type"
     /\ Has(call.node, "anyOf")
     /\ DOMAIN call.node \cap {"properties", "type"} = {})
    => LET alternatives == call.node["anyOf"]
           typed == TypedAlternatives(alternatives)
       IN  call.outcome =
             IF typed = {} THEN EmptyDict
             ELSE TableDefault(alternatives[Min(typed)]["type"])

C5_Witness ==
    /\ call.op = "_get_type"
    /\ call.node = [anyOf |-> <<TypeOf("null"), TypeOf("string")>>]
    /\ call.outcome = EmptyString

\* C3: the type chain of (name, schema) that resolves is "ndrm:" + name
\* followed, for each parent in listed order (the $ref entries of allOf, else
\* the node's own $ref), by the parent's whole chain, repetitions kept.
\* The chain Foo -> Bar -> Baz yields ndrm:Foo, ndrm:Bar, ndrm:Baz.
C3_TypeChain ==
    /\ (call.op = "_get_ndrm_type" /\ ~IsError(call.outcome))
       => LET parents == Parents(call.node)
              names == <<call.name>>
                       \o Flatten([i \in 1..Len(parents) |->
                                      Ancestry(definitions, parents[i])])
          IN  call.outcome = ListOf([i \in 1..Len(names) |-> "ndrm:" \o names[i]])
    /\ (/\ call.op = "_get_ndrm_type"
        /\ call.name = "Foo"
        /\ call.node = RefTo("Bar")
        /\ definitions["Bar"] = RefTo("Baz")
        /\ DOMAIN definitions["Baz"] \cap {"allOf", "$ref"} = {})
       => call.outcome = ListOf(<<"ndrm:Foo", "ndrm:Bar", "ndrm:Baz">>)

C3_Witness ==
    /\ call.op = "_get_ndrm_type"
    /\ call.name = "Foo"
    /\ call.node = [allOf |-> <<RefTo("Bar"), RefTo("Baz")>>]
    /\ definitions["Bar"] = RefTo("Baz")
    /\ call.outcome =
         ListOf(<<"ndrm:Foo", "ndrm:Bar", "ndrm:Baz", "ndrm:Baz">>)

\* a node that _get_properties treats as a composition: allOf, no properties
\* and no $ref of its own, and a type tag of object
IsComposition(node) ==
    /\ Has(node, "allOf")
    /\ DOMAIN node \cap {"properties", "$ref", "anyOf"} = {}
    /\ Has(node, "type") => node["type"] \notin {"string", "array"}

\* an allOf entry is a reference (a $ref and nothing else) or an inline
\* object (no $ref)
IsReference(dic) == DOMAIN dic = {"$ref"}
IsInline(dic) == ~Has(dic, "$ref")

\* what an allOf entry brings into the merge: its own properties and
\* required names, or those of the definition it refers to
Contribution(defs, dic) ==
    IF IsReference(dic)
    THEN LET resolved == _get_properties(defs, defs[RefName(dic["$ref"])])
         IN  [props |-> resolved.props, required |-> resolved.required]
    ELSE [props |-> IF Has(dic, "properties") THEN dic["properties"] ELSE EmptyMap,
          required |-> IF Has(dic, "required") THEN dic["required"] ELSE <<>>]

C8_DirectAndDelegation ==
    call.op = "_get_properties" =>
      LET node == call.node
          required == IF Has(node, "required") THEN node["required"] ELSE <<>>
          defaults == [i \in 1..Len(required) |->
                          _get_prop_type(definitions, required[i], node)]
          tag == _get_type(definitions, node)
      IN  /\ Has(node, "properties") =>
                IF \E i \in 1..Len(required) : IsError(defaults[i])
                THEN IsError(call.outcome)
                ELSE call.outcome = Triple(node["properties"], required, defaults)
          /\ (/\ Has(node, "$ref")
              /\ DOMAIN node \cap {"properties", "type", "anyOf"} = {}
              /\ RefName(node["$ref"]) \in DOMAIN definitions)
             => call.outcome =
                  _get_properties(definitions, definitions[RefName(node["$ref"])])
          /\ tag.kind \in {"str", "list"} =>
                call.outcome = Triple(EmptyMap, <<>>, <<>>)

C8_Witness ==
    /\ call.op = "_get_properties"
    /\ call.node = [properties |-> ("x" :> TypeOf("array")) @@ ("y" :> RefTo("Baz")),
                    required |-> <<"y", "x">>]
    /\ definitions["Baz"] = TypeOf("string")
    /\ call.outcome.kind = "tuple"
    /\ call.outcome.required_types = <<EmptyString, EmptyList>>

\* C9: the type of a property whose sub-schema has anyOf and no type, $ref or
\* allOf is the table default of the first alternative with a type other
\* than "null"; without such an alternative, and with one that carries a
\* $ref, it is the default of the definition that $ref names.
C9_AnyOfProperty ==
    (/\ call.op = "_get_prop_type"
     /\ Has(call.node, "properties")
     /\ Has(call.node["properties"], call.name)
     /\ Has(call.node["properties"][call.name], "anyOf")
     /\ DOMAIN call.node["properties"][call.name] \cap {"type", "$ref", "allOf"} = {})
    => LET alternatives == call.node["properties"][call.name]["anyOf"]
           typed == TypedAlternatives(alternatives)
           referring == {i \in 1..Len(alternatives) : Has(alternatives[i], "$ref")}
           mother == RefName(alternatives[Min(referring)]["$ref"])
       IN  IF typed # {}
           THEN call.outcome = TableDefault(alternatives[Min(typed)]["type"])
           ELSE (referring # {} /\ mother \in DOMAIN definitions)
                => call.outcome = _get_type(definitions, definitions[mother])

\* C10: in the composition case the default recorded for a required name is
\* the property type of that name against the merged property map.
C10_MergedDefaults ==
    (/\ call.op = "_get_properties"
     /\ IsComposition(call.node)
     /\ call.outcome.kind = "tuple")
    => \A i \in 1..Len(call.outcome.required) :
          call.outcome.required_types[i] =
              _get_prop_type(definitions, call.outcome.required[i],
                             [properties |-> call.outcome.props])

\* a sub-schema that is a reference and nothing else
IsPureRef(node) ==
    /\ Has(node, "$ref")
    /\ DOMAIN node \cap {"properties", "type", "anyOf", "allOf"} = {}

Missing(name) == name \notin DOMAIN definitions

\* a chain of references that ends at a name that is no definition
RECURSIVE Dangling(_)
Dangling(node) ==
    /\ IsPureRef(node)
    /\ \/ Missing(RefName(node["$ref"]))
       \/ Dangling(definitions[RefName(node["$ref"])])

\* an ancestor that is no definition
RECURSIVE ChainDangling(_)
ChainDangling(node) ==
    \E p \in Range(Parents(node)) : Missing(p) \/ ChainDangling(definitions[p])

\* the property name of node is a dangling reference
PropDangling(name, node) ==
    /\ Has(node, "properties")
    /\ Has(node["properties"], name)
    /\ Dangling(node["properties"][name])

\* the allOf entry alone merges without an exception
Resolves(dic) == _get_properties(definitions, [allOf |-> <<dic>>]).kind = "tuple"

\* resolving the properties of node meets a name that is no definition:
\* through the node's own reference, through a required property of its own,
\* or through an allOf entry that is reached because the entries before it
\* resolve
RECURSIVE PropertiesDangling(_)
PropertiesDangling(node) ==
    \/ Dangling(node)
    \/ /\ IsPureRef(node)
       /\ ~Missing(RefName(node["$ref"]))
       /\ PropertiesDangling(definitions[RefName(node["$ref"])])
    \/ /\ Has(node, "properties")
       /\ Has(node, "required")
       /\ \E i \in 1..Len(node["required"]) : PropDangling(node["required"][i], node)
    \/ /\ IsComposition(node)
       /\ \E i \in 1..Len(node["allOf"]) :
             LET dic == node["allOf"][i]
                 earlier == Flatten([j \in 1..(i - 1) |->
                               Contribution(definitions, node["allOf"][j]).required])
             IN  /\ \A j \in 1..(i - 1) :
                       /\ IsReference(node["allOf"][j]) \/ IsInline(node["allOf"][j])
                       /\ Resolves(node["allOf"][j])
                 /\ \/ /\ IsReference(dic)
                       /\ \/ Missing(RefName(dic["$ref"]))
                          \/ PropertiesDangling(definitions[RefName(dic["$ref"])])
                    \/ /\ IsInline(dic)
                       /\ Has(dic, "required")
                       /\ \E k \in 1..Len(dic["required"]) :
                             /\ dic["required"][k] \notin Range(earlier)
                             /\ PropDangling(dic["required"][k], dic)

\* C2: an invocation that is given, or meets while it resolves, a name that
\* is no key of the definitions ends in KeyError and returns no value.
C2_UnknownDefinition ==
    /\ (call.op = "create_obj" /\ Missing(call.name)) => call.outcome = KeyError
    /\ (/\ call.op = "create_obj"
        /\ ~Missing(call.name)
        /\ PropertiesDangling(definitions[call.name]))
       => call.outcome = KeyError
    /\ (call.op = "_get_type" /\ Dangling(call.node)) => call.outcome = KeyError
    /\ (call.op = "_get_ndrm_type" /\ ChainDangling(call.node))
       => call.outcome = KeyError
    /\ (call.op = "_get_prop_type" /\ PropDangling(call.name, call.node))
       => call.outcome = KeyError
    /\ (call.op = "_get_properties" /\ PropertiesDangling(call.node))
       => call.outcome = KeyError

C2_Witness ==
    /\ call.op = "_get_properties"
    /\ call.node = [allOf |-> <<RefTo("Baz"), RefTo(Ghost)>>]
    /\ definitions["Baz"] = Person
    /\ call.outcome = KeyError

\* C4: the instance created for an object definition maps every required
\* name to the default of that property and holds nothing else but the
\* declared @type and @id.
C4_DefaultInstance ==
    (call.op = "create_obj" /\ call.outcome.kind = "dict")
    => LET got == _get_properties(definitions, definitions[call.name])
           value == call.outcome.map
       IN  /\ \A i \in 1..Len(got.required) :
                 /\ got.required[i] \in DOMAIN value
                 /\ value[got.required[i]] =
                      _get_prop_type(definitions, got.required[i],
                                     [properties |-> got.props])
           /\ DOMAIN value \subseteq
                 Range(got.required) \cup ({"@type", "@id"} \cap DOMAIN got.props)

\* C7: whatever is invoked, the definitions stay as they were loaded, and
\* what the resolver returns is what it returns on the definitions as loaded.
C7_SchemaUnchanged ==
    /\ definitions = loaded
    /\ call.op = "_get_type" => call.outcome = _get_type(loaded, call.node)
    /\ call.op = "_get_ndrm_type" =>
          call.outcome = _get_ndrm_type(loaded, call.name, call.node)
    /\ call.op = "_get_prop_type" =>
          call.outcome = _get_prop_type(loaded, call.name, call.node)
    /\ call.op = "_get_properties" =>
          call.outcome = _get_properties(loaded, call.node)

C7_Witness ==
    /\ call.op = "create_obj"
    /\ editor.widget = "JSONEditor"
    /\ Has(editor.schema, "title")
    /\ ~Has(definitions[call.name], "title")
    /\ definitions = loaded

\* a sub-schema of none of the recognized shapes
IsUnrecognized(node) ==
    DOMAIN node \cap {"type", "$ref", "allOf", "anyOf", "properties"} = {}

\* C11: on a sub-schema of none of the recognized shapes the resolver falls
\* back to the object default: _get_type returns the empty mapping,
\* _get_prop_type of a property with such a sub-schema returns the empty
\* mapping, and _get_properties returns a triple of collections.
C11_TypeDegrades ==
    (call.op = "_get_type" /\ IsUnrecognized(call.node))
    => call.outcome = EmptyDict

C11_PropTypeDegrades ==
    (/\ call.op = "_get_prop_type"
     /\ Has(call.node, "properties")
     /\ Has(call.node["properties"], call.name)
     /\ IsUnrecognized(call.node["properties"][call.name]))
    => call.outcome = EmptyDict

C11_PropertiesDegrade ==
    (call.op = "_get_properties" /\ IsUnrecognized(call.node))
    => call.outcome.kind = "tuple"

C11_SilentDegrade ==
    C11_TypeDegrades /\ C11_PropTypeDegrades /\ C11_PropertiesDegrade

====
